---- MODULE Spec2Model ----
(***************************************************************************)
(* pyhashdiff: compare two files, or two directory trees, by size and MD5. *)
(*                                                                         *)
(* The model is the program of src/src/pyhashdiff.py run on a small file   *)
(* system.  Paths are sequences of components (<<"A", "sub", "b.txt">> is   *)
(* A/sub/b.txt), file contents are sequences of bytes, and every I/O call  *)
(* that can raise is a step of its own.  A file carries the fault it shows  *)
(* after it has been classified or enumerated:                             *)
(*   "none"  every call succeeds                                           *)
(*   "stat"  the file has vanished: os.path.getsize raises                 *)
(*   "open"  open() raises (permission denied, or vanished after getsize)  *)
(*   "read"  open() succeeds and some f.read() raises                      *)
(***************************************************************************)
EXTENDS Integers, Sequences, FiniteSets, TLC

\* Longest file content, in bytes.
MaxLen == 2

\* Bytes asked of f.read() per call.  The program asks for 4096; the model
\* keeps the loop and scales the number down to the size of its files.
ChunkSize == 1

Bytes == {0, 1}

Roots == {"A", "B"}

\* The relative paths a tree may hold; one of them lies in a subdirectory.
RelPaths == {<<"a.txt">>, <<"sub", "b.txt">>}

Faults == {"none", "stat", "open", "read"}

Min(a, b) == IF a < b THEN a ELSE b

Contents == UNION {[1..n -> Bytes] : n \in 0..MaxLen}

VARIABLES
    fs,            \* the file system: root name -> node
    args,          \* <<path1, path2>> of this invocation
    run,           \* 1: first invocation, 2: the one with the arguments exchanged
    prev,          \* what the first invocation ended with
    pc,            \* where the program is
    out,           \* standard output, a sequence of lines
    called,        \* which comparators main has called
    files1, files2, unique_files, common_files,
    todo,          \* common files the loop has still to visit
    file,          \* the loop variable of the common-files loop
    results,       \* the report: str(relative path) -> message
    written,       \* how often each key has been assigned in results
    toPrint,       \* keys main has still to print
    cf,            \* the frame of compare_files
    ret,           \* what compare_files returned: <<same, message>>
    h,             \* the frame of md5_hash
    handles,       \* paths of the files now open
    opens          \* open() calls since compare_files was entered

vars == <<fs, args, run, prev, pc, out, called, files1, files2, unique_files,
          common_files, todo, file, results, written, toPrint, cf, ret, h,
          handles, opens>>

----------------------------------------------------------------------------
(* Paths and the file system *)

RECURSIVE PathStr(_)
\* str(path): the components joined by "/".
PathStr(p) ==
    IF Len(p) = 0 THEN "."
    ELSE IF Len(p) = 1 THEN p[1]
    ELSE p[1] \o "/" \o PathStr(Tail(p))

\* Path(dir) / file
Join(dir, rel) == dir \o rel

\* f.relative_to(dir)
RelativeTo(f, dir) == SubSeq(f, Len(dir) + 1, Len(f))

Tree(root) == fs[root].tree

\* path.is_file()
IsFile(p) ==
    IF Len(p) = 1 THEN fs[p[1]].kind = "file"
    ELSE fs[p[1]].kind = "dir" /\ Tail(p) \in DOMAIN Tree(p[1])

\* path.is_dir()
IsDir(p) ==
    IF Len(p) = 1 THEN fs[p[1]].kind = "dir"
    ELSE /\ fs[p[1]].kind = "dir"
         /\ \E r \in DOMAIN Tree(p[1]) : \E k \in 1..(Len(r) - 1) : Tail(p) = SubSeq(r, 1, k)

\* The file at p: its content and its fault.
FileAt(p) ==
    IF Len(p) = 1 THEN [content |-> fs[p[1]].content, fault |-> fs[p[1]].fault]
    ELSE Tree(p[1])[Tail(p)]

\* Path(dir).rglob("*"): every entry below dir, files and directories alike.
RGlob(dir) ==
    LET t == Tree(dir[1]) IN
    {Join(dir, r) : r \in DOMAIN t}
        \cup UNION {{Join(dir, SubSeq(r, 1, k)) : k \in 1..(Len(r) - 1)} : r \in DOMAIN t}

\* {f.relative_to(dir) for f in Path(dir).rglob("*") if f.is_file()}
RelativeFiles(dir) == {RelativeTo(f, dir) : f \in {g \in RGlob(dir) : IsFile(g)}}

----------------------------------------------------------------------------
(* md5_hash *)

\* The value md5_hash returns: a hex digest, or None.
NoneValue == [isNone |-> TRUE, hex |-> ""]

Digest(hex) == [isNone |-> FALSE, hex |-> hex]

\* How an f-string shows the value.
DigestStr(d) == IF d.isNone THEN "None" ELSE d.hex

\* hashlib.md5(): nothing absorbed yet.
NewMd5 == <<>>

\* update() as it would be if each chunk replaced the ones before it.
UpdateKeepsLast(hash_md5, chunk) == chunk

\* hash_md5.update(chunk).  The digest is modelled as collision free: the
\* state is the bytes absorbed so far.
Update(hash_md5, chunk) == hash_md5 \o chunk

ByteHex(b) == IF b = 0 THEN "00" ELSE "01"

RECURSIVE HexDigest(_)
\* hash_md5.hexdigest(): two hex digits for each byte absorbed.
HexDigest(hash_md5) ==
    IF hash_md5 = <<>> THEN ""
    ELSE ByteHex(Head(hash_md5)) \o HexDigest(Tail(hash_md5))

\* f.read(4096) at offset pos.
ReadChunk(content, pos) == SubSeq(content, pos + 1, Min(pos + ChunkSize, Len(content)))

\* The text of the OSError a fault raises.
ErrText(fault) ==
    IF fault = "read" THEN "[Errno 5] Input/output error"
    ELSE IF fault = "open" THEN "[Errno 13] Permission denied"
    ELSE "[Errno 2] No such file or directory"

\* print(f"Error reading file {file_path}: {e}")
ReadErrorLine(path, fault) ==
    "Error reading file " \o PathStr(path) \o ": " \o ErrText(fault)

\* Leaving the block as it would be without the with statement: nothing is closed.
WithExitLeaks(open, path) == open

\* The handles left open when the with block is left.
WithExit(open, path) == open \ {path}

IdleHash == [path |-> <<>>, slot |-> 0, hash_md5 |-> NewMd5, pos |-> 0]

EnterHash(path, slot) == [path |-> path, slot |-> slot, hash_md5 |-> NewMd5, pos |-> 0]

----------------------------------------------------------------------------
(* compare_files *)

IdleFrame == [file1 |-> <<>>, file2 |-> <<>>, size1 |-> 0, size2 |-> 0,
              md5_1 |-> NoneValue, md5_2 |-> NoneValue]

EnterCompare(file1, file2) == [IdleFrame EXCEPT !.file1 = file1, !.file2 = file2]

NoResult == <<FALSE, "">>

\* size1 != size2
SizesDiffer(size1, size2) == size1 # size2

\* The size message with the two sizes exchanged.
SizesMessageSwapped(size1, size2) ==
    "Sizes differ: " \o ToString(size2) \o " != " \o ToString(size1)

\* f"Sizes differ: {size1} != {size2}"
SizesMessage(size1, size2) ==
    "Sizes differ: " \o ToString(size1) \o " != " \o ToString(size2)

\* The None test with "and" for "or".
HashFailedBoth(md5_1, md5_2) == md5_1.isNone /\ md5_2.isNone

\* md5_1 is None or md5_2 is None
HashFailed(md5_1, md5_2) == md5_1.isNone \/ md5_2.isNone

\* f"MD5 hashes differ: {md5_1} != {md5_2}"
HashesMessage(md5_1, md5_2) ==
    "MD5 hashes differ: " \o DigestStr(md5_1) \o " != " \o DigestStr(md5_2)

\* Lines 64-70: the verdict once both digests are in.
Verdict(md5_1, md5_2) ==
    IF HashFailed(md5_1, md5_2) THEN <<FALSE, "Error calculating MD5 hash.">>
    ELSE IF md5_1 # md5_2 THEN <<FALSE, HashesMessage(md5_1, md5_2)>>
    ELSE <<TRUE, "Files are the same.">>

----------------------------------------------------------------------------
(* compare_directories and main *)

\* The union where the symmetric difference is meant.
UnionOfBoth(s1, s2) == s1 \cup s2

\* files1.symmetric_difference(files2)
SymmetricDifference(s1, s2) == (s1 \ s2) \cup (s2 \ s1)

\* files1.intersection(files2)
Intersection(s1, s2) == s1 \cap s2

\* The message as it would be if the loop never looked at which set holds the file.
UniqMessageFirstDir(f, s1, dir1, dir2) == "UNIQ: Only in " \o PathStr(dir1)

\* Lines 94-97: the message of a file found in one tree only.
UniqMessage(f, s1, dir1, dir2) ==
    IF f \in s1 THEN "UNIQ: Only in " \o PathStr(dir1)
    ELSE "UNIQ: Only in " \o PathStr(dir2)

\* results[key] = message
Assign(r, key, message) ==
    [k \in DOMAIN r \cup {key} |-> IF k = key THEN message ELSE r[k]]

EmptyReport == [k \in {} |-> ""]

\* The report as it would be if every common file entered it.
ReportedAlways(same) == TRUE

\* Line 102: whether a common file enters the report.
Reported(same) == ~same

\* The labels the other way round.
FileLabelStraight(same) == IF same THEN "SAME: " ELSE "DIFF: "

\* Lines 121-124: the label main prints before the comparator's message.
FileLabel(same) == IF same THEN "DIFF: " ELSE "SAME: "

\* The test with "or" for "and".
EitherFile(path1, path2) == IsFile(path1) \/ IsFile(path2)

\* path1.is_file() and path2.is_file()
BothFiles(path1, path2) == IsFile(path1) /\ IsFile(path2)

\* path1.is_dir() and path2.is_dir()
BothDirs(path1, path2) == IsDir(path1) /\ IsDir(path2)

MismatchLine == "Both paths must be either files or directories."

----------------------------------------------------------------------------
(* The initial states: a file system and the first invocation *)

EmptyTree == [r \in {} |-> [content |-> <<>>, fault |-> "none"]]

FileNode(f) == [kind |-> "file", content |-> f.content, fault |-> f.fault, tree |-> EmptyTree]

DirNode(t) == [kind |-> "dir", content |-> <<>>, fault |-> "none", tree |-> t]

OtherNode == [kind |-> "other", content |-> <<>>, fault |-> "none", tree |-> EmptyTree]

FileRecs == [content : Contents, fault : Faults]

CleanRecs == [content : Contents, fault : {"none"}]

\* The files of a tree are short, one read each; the file-against-file case
\* has the long ones.
ShortRecs(recs) == {f \in recs : Len(f.content) <= ChunkSize}

Trees(recs) == UNION {[D -> ShortRecs(recs)] : D \in SUBSET RelPaths}

FaultCount(t) == Cardinality({r \in DOMAIN t : t[r].fault # "none"})

MakeFs(nodeA, nodeB) == [r \in Roots |-> IF r = "A" THEN nodeA ELSE nodeB]

\* Two files, each with any content and any fault.
FilePairs == {MakeFs(FileNode(f1), FileNode(f2)) : f1, f2 \in FileRecs}

\* Two trees with at most one faulty file between them.
TreePairs ==
    LET clean == Trees(CleanRecs)
        one   == {t \in Trees(FileRecs) : FaultCount(t) = 1}
    IN {MakeFs(DirNode(t1), DirNode(t2)) :
            <<t1, t2>> \in (clean \X clean) \cup (one \X clean) \cup (clean \X one)}

\* Two paths that are not both files and not both directories.
MixedPairs ==
    LET nodes == {FileNode(f) : f \in CleanRecs}
                    \cup {DirNode(t) : t \in Trees(CleanRecs)} \cup {OtherNode}
    IN {MakeFs(n1, n2) : <<n1, n2>> \in
            {p \in nodes \X nodes : ~(p[1].kind = p[2].kind /\ p[1].kind # "other")}}

NoRun == [pc |-> "none", args |-> <<>>, out |-> <<>>, called |-> {},
          results |-> [k \in {} |-> ""]]

Init ==
    /\ fs \in FilePairs \cup TreePairs \cup MixedPairs
    /\ args = << <<"A">>, <<"B">> >>
    /\ run = 1
    /\ prev = NoRun
    /\ pc = "start"
    /\ out = <<>>
    /\ called = {}
    /\ files1 = {} /\ files2 = {} /\ unique_files = {} /\ common_files = {}
    /\ todo = {}
    /\ file = <<>>
    /\ results = EmptyReport
    /\ written = EmptyReport
    /\ toPrint = {}
    /\ cf = IdleFrame
    /\ ret = NoResult
    /\ h = IdleHash
    /\ handles = {}
    /\ opens = 0

----------------------------------------------------------------------------
(* main, lines 116-131 *)

Main ==
    /\ pc = "start"
    /\ IF BothFiles(args[1], args[2])
       THEN /\ called' = called \cup {"compare_files"}
            /\ cf' = EnterCompare(args[1], args[2])
            /\ pc' = "cf_sizes"
            /\ out' = out
       ELSE IF BothDirs(args[1], args[2])
       THEN /\ called' = called \cup {"compare_directories"}
            /\ pc' = "cd_scan"
            /\ UNCHANGED <<cf, out>>
       ELSE /\ out' = Append(out, MismatchLine)
            /\ pc' = "exit"
            /\ UNCHANGED <<cf, called>>
    /\ UNCHANGED <<fs, args, run, prev, files1, files2, unique_files, common_files,
                   todo, file, results, written, toPrint, ret, h, handles, opens>>

\* How often key has been assigned in results.
Writes(w, key) == IF key \in DOMAIN w THEN w[key] ELSE 0

(* compare_directories, lines 89-98: the two sets, and the loop over the    *)
(* files found in one tree only.                                           *)
ScanTrees ==
    /\ pc = "cd_scan"
    /\ LET s1 == RelativeFiles(args[1])
           s2 == RelativeFiles(args[2])
           u  == SymmetricDifference(s1, s2)
           keys == {PathStr(f) : f \in u}
       IN /\ files1' = s1
          /\ files2' = s2
          /\ unique_files' = u
          /\ common_files' = Intersection(s1, s2)
          /\ results' = [k \in keys |->
                            UniqMessage(CHOOSE f \in u : PathStr(f) = k, s1, args[1], args[2])]
          /\ written' = [k \in keys |-> Cardinality({f \in u : PathStr(f) = k})]
          /\ todo' = Intersection(s1, s2)
    /\ pc' = "cd_loop"
    /\ UNCHANGED <<fs, args, run, prev, out, called, file, toPrint, cf, ret, h,
                   handles, opens>>

\* Lines 99-101: the next common file, in whatever order the set yields it.
NextCommon ==
    /\ pc = "cd_loop"
    /\ \E f \in todo :
          /\ file' = f
          /\ todo' = todo \ {f}
          /\ cf' = EnterCompare(Join(args[1], f), Join(args[2], f))
    /\ opens' = 0
    /\ pc' = "cf_sizes"
    /\ UNCHANGED <<fs, args, run, prev, out, called, files1, files2, unique_files,
                   common_files, results, written, toPrint, ret, h, handles>>

\* Lines 102-103: the comparator has returned to compare_directories.
DirRecord ==
    /\ pc = "cf_return"
    /\ "compare_directories" \in called
    /\ IF Reported(ret[1])
       THEN /\ results' = Assign(results, PathStr(file), ret[2])
            /\ written' = Assign(written, PathStr(file), Writes(written, PathStr(file)) + 1)
       ELSE UNCHANGED <<results, written>>
    /\ pc' = "cd_loop"
    /\ UNCHANGED <<fs, args, run, prev, out, called, files1, files2, unique_files,
                   common_files, todo, file, toPrint, cf, ret, h, handles, opens>>

\* Line 104, and main's line 127: the report is returned.
ReturnResults ==
    /\ pc = "cd_loop"
    /\ todo = {}
    /\ toPrint' = DOMAIN results
    /\ pc' = IF DOMAIN results = {} THEN "exit" ELSE "cd_print"
    /\ UNCHANGED <<fs, args, run, prev, out, called, files1, files2, unique_files,
                   common_files, todo, file, results, written, cf, ret, h, handles, opens>>

\* Lines 128-129: one line for each entry of the report.
PrintLine ==
    /\ pc = "cd_print"
    /\ \E k \in toPrint :
          /\ out' = Append(out, k \o ": " \o results[k])
          /\ toPrint' = toPrint \ {k}
          /\ pc' = IF toPrint \ {k} = {} THEN "exit" ELSE "cd_print"
    /\ UNCHANGED <<fs, args, run, prev, called, files1, files2, unique_files,
                   common_files, todo, file, results, written, cf, ret, h, handles, opens>>

\* Lines 120-124: the comparator has returned to main.
FileReport ==
    /\ pc = "cf_return"
    /\ "compare_directories" \notin called
    /\ out' = Append(out, FileLabel(ret[1]) \o ret[2])
    /\ pc' = "exit"
    /\ UNCHANGED <<fs, args, run, prev, called, files1, files2, unique_files,
                   common_files, todo, file, results, written, toPrint, cf, ret, h,
                   handles, opens>>

----------------------------------------------------------------------------
(* compare_files, lines 57-70 *)

(* Lines 57-60.  os.path.getsize raises OSError for a file that is gone;   *)
(* nothing between here and the interpreter's top level catches it.         *)
GetSizes ==
    /\ pc = "cf_sizes"
    /\ LET f1 == FileAt(cf.file1)
           f2 == FileAt(cf.file2)
           size1 == Len(f1.content)
           size2 == Len(f2.content)
       IN IF f1.fault = "stat" \/ f2.fault = "stat"
          THEN /\ pc' = "crashed"
               /\ UNCHANGED <<cf, ret, h>>
          ELSE /\ cf' = [cf EXCEPT !.size1 = size1, !.size2 = size2]
               /\ IF SizesDiffer(size1, size2)
                  THEN /\ ret' = <<FALSE, SizesMessage(size1, size2)>>
                       /\ pc' = "cf_return"
                       /\ h' = h
                  ELSE /\ h' = EnterHash(cf.file1, 1)
                       /\ pc' = "md5_open"
                       /\ ret' = ret
    /\ UNCHANGED <<fs, args, run, prev, out, called, files1, files2, unique_files,
                   common_files, todo, file, results, written, toPrint, handles, opens>>

\* md5_hash returns value: to line 62 after the first call, to line 64 after the second.
MD5Return(value) ==
    IF h.slot = 1
    THEN /\ cf' = [cf EXCEPT !.md5_1 = value]
         /\ h' = EnterHash(cf.file2, 2)
         /\ pc' = "md5_open"
    ELSE /\ cf' = [cf EXCEPT !.md5_2 = value]
         /\ h' = IdleHash
         /\ pc' = "cf_decide"

\* Lines 31-32, and 36-38 when open() raises.
OpenFile ==
    /\ pc = "md5_open"
    /\ opens' = opens + 1
    /\ IF FileAt(h.path).fault \in {"open", "stat"}
       THEN /\ out' = Append(out, ReadErrorLine(h.path, FileAt(h.path).fault))
            /\ MD5Return(NoneValue)
            /\ handles' = handles
       ELSE /\ handles' = handles \cup {h.path}
            /\ pc' = "md5_read"
            /\ UNCHANGED <<out, cf, h>>
    /\ UNCHANGED <<fs, args, run, prev, called, files1, files2, unique_files,
                   common_files, todo, file, results, written, toPrint, ret>>

(* Lines 33-38: one f.read(4096).  It raises (the with block closes the     *)
(* file, the handler prints and returns None), or returns b"" (the loop   *)
(* ends, the with block closes the file, the digest is returned), or       *)
(* returns a chunk.  A file with fault "read" raises at some read, at the  *)
(* latest at the one that would have met the end of the file.              *)
ReadFile ==
    /\ pc = "md5_read"
    /\ LET f == FileAt(h.path)
           chunk == ReadChunk(f.content, h.pos)
       IN \/ /\ f.fault = "read"
             /\ handles' = WithExit(handles, h.path)
             /\ out' = Append(out, ReadErrorLine(h.path, f.fault))
             /\ MD5Return(NoneValue)
          \/ /\ ~(f.fault = "read" /\ chunk = <<>>)
             /\ IF chunk = <<>>
                THEN /\ handles' = WithExit(handles, h.path)
                     /\ MD5Return(Digest(HexDigest(h.hash_md5)))
                ELSE /\ h' = [h EXCEPT !.hash_md5 = Update(@, chunk),
                                       !.pos = @ + Len(chunk)]
                     /\ UNCHANGED <<handles, cf, pc>>
             /\ out' = out
    /\ UNCHANGED <<fs, args, run, prev, called, files1, files2, unique_files,
                   common_files, todo, file, results, written, toPrint, ret, opens>>

\* Lines 64-70.
Decide ==
    /\ pc = "cf_decide"
    /\ ret' = Verdict(cf.md5_1, cf.md5_2)
    /\ pc' = "cf_return"
    /\ UNCHANGED <<fs, args, run, prev, out, called, files1, files2, unique_files,
                   common_files, todo, file, results, written, toPrint, cf, h,
                   handles, opens>>

----------------------------------------------------------------------------
(* A second invocation on the same file system, the arguments exchanged *)

SwapArguments ==
    /\ pc \in {"exit", "crashed"}
    /\ run = 1
    /\ prev' = [pc |-> pc, args |-> args, out |-> out, called |-> called,
                results |-> results]
    /\ run' = 2
    /\ args' = <<args[2], args[1]>>
    /\ pc' = "start"
    /\ out' = <<>>
    /\ called' = {}
    /\ files1' = {} /\ files2' = {} /\ unique_files' = {} /\ common_files' = {}
    /\ todo' = {}
    /\ file' = <<>>
    /\ results' = EmptyReport
    /\ written' = EmptyReport
    /\ toPrint' = {}
    /\ cf' = IdleFrame
    /\ ret' = NoResult
    /\ h' = IdleHash
    /\ handles' = {}
    /\ opens' = 0
    /\ fs' = fs

Next ==
    \/ Main
    \/ ScanTrees
    \/ NextCommon
    \/ DirRecord
    \/ ReturnResults
    \/ PrintLine
    \/ FileReport
    \/ GetSizes
    \/ OpenFile
    \/ ReadFile
    \/ Decide
    \/ SwapArguments

Spec == Init /\ [][Next]_vars

----------------------------------------------------------------------------
(* What the file system says, the code's variables left aside *)

\* This invocation compares two files / two directory trees.
FileRun == "compare_files" \in called

DirRun == "compare_directories" \in called

\* compare_directories has returned its report.
DirReturned == DirRun /\ pc \in {"cd_print", "exit"}

\* compare_files has returned.
CompareReturned == pc = "cf_return"

FilesOf(root) == DOMAIN Tree(root)

InOneTree == (FilesOf("A") \ FilesOf("B")) \cup (FilesOf("B") \ FilesOf("A"))

InBothTrees == FilesOf("A") \cap FilesOf("B")

\* The digest of the file cannot be computed.
Unhashable(f) == f.fault \in {"open", "read"}

\* The common file r is not the same on the two sides.
NotSame(r) ==
    \/ Tree("A")[r].content # Tree("B")[r].content
    \/ Unhashable(Tree("A")[r])
    \/ Unhashable(Tree("B")[r])

\* The two files compare_files was called with.
First == FileAt(cf.file1)

Second == FileAt(cf.file2)

----------------------------------------------------------------------------
(* The claims *)

C2_ScanSurvivesBadFile ==
    /\ DirRun => pc # "crashed"
    /\ DirReturned =>
          \A r \in InOneTree \cup {c \in InBothTrees : NotSame(c)} :
              PathStr(r) \in DOMAIN results

(* C3: when the sizes are equal and the digest of either file, or of both, *)
(* cannot be computed, compare_files returns not-same with the message     *)
(* "Error calculating MD5 hash.", never same and never "MD5 hashes differ". *)
C3_HashFailureVerdict ==
    (/\ CompareReturned
     /\ Len(First.content) = Len(Second.content)
     /\ Unhashable(First) \/ Unhashable(Second))
        => ret = <<FALSE, "Error calculating MD5 hash.">>

C3_Witness ==
    /\ CompareReturned
    /\ Len(First.content) = Len(Second.content)
    /\ First.fault = "none"
    /\ Second.fault = "read"
    /\ ret = <<FALSE, "Error calculating MD5 hash.">>

(* C4: when the byte lengths differ, compare_files returns not-same with   *)
(* "Sizes differ: <n1> != <n2>", the sizes in argument order, and no file  *)
(* is opened on the way.                                                   *)
C4_SizeShortCircuit ==
    (pc \in {"md5_open", "md5_read", "cf_decide", "cf_return"}
        /\ Len(First.content) # Len(Second.content))
        => /\ pc = "cf_return"
           /\ ret = <<FALSE, "Sizes differ: " \o ToString(Len(First.content))
                              \o " != " \o ToString(Len(Second.content))>>
           /\ opens = 0
           /\ handles = {}

C4_Witness ==
    /\ CompareReturned
    /\ Len(First.content) = 2
    /\ Len(Second.content) = 1
    /\ ret = <<FALSE, "Sizes differ: 2 != 1">>
    /\ opens = 0

(* C5: for two readable files compare_files returns same exactly when the  *)
(* contents are equal, two empty files included; equal lengths with a      *)
(* differing byte give "MD5 hashes differ: <h1> != <h2>".                  *)
C5_SameIffEqualContent ==
    (CompareReturned /\ First.fault = "none" /\ Second.fault = "none")
        => /\ ret[1] <=> First.content = Second.content
           /\ First.content = Second.content => ret = <<TRUE, "Files are the same.">>
           /\ (Len(First.content) = Len(Second.content) /\ First.content # Second.content)
                 => ret = <<FALSE, "MD5 hashes differ: " \o HexDigest(First.content)
                                    \o " != " \o HexDigest(Second.content)>>

C5_Witness ==
    /\ CompareReturned
    /\ First.fault = "none" /\ Second.fault = "none"
    /\ Len(First.content) > ChunkSize
    /\ Len(First.content) = Len(Second.content)
    /\ First.content # Second.content
    /\ Head(First.content) # Head(Second.content)
    /\ ~ret[1]

(* C6: main compares only two files or two directories; when the kinds     *)
(* differ, or a path is neither, it prints the one line "Both paths must   *)
(* be either files or directories." and calls no comparator.               *)
C6_MismatchNoComparison ==
    LET k1 == fs[args[1][1]].kind
        k2 == fs[args[2][1]].kind
    IN /\ FileRun => (k1 = "file" /\ k2 = "file")
       /\ DirRun => (k1 = "dir" /\ k2 = "dir")
       /\ (pc # "start" /\ ~(k1 = k2 /\ k1 \in {"file", "dir"}))
             => /\ pc = "exit"
                /\ out = <<"Both paths must be either files or directories.">>
                /\ called = {}
                /\ opens = 0

C6_Witness ==
    /\ pc = "exit"
    /\ fs[args[1][1]].kind = "file"
    /\ fs[args[2][1]].kind = "dir"
    /\ out = <<"Both paths must be either files or directories.">>
    /\ called = {}

(* C7: exchanging the two directory arguments leaves the keys of the       *)
(* report as they were, and a file found in one tree only is labelled      *)
(* "UNIQ: Only in <root of that tree>" whichever way round the roots are   *)
(* given.                                                                  *)
C7_SwapSymmetry ==
    /\ DirReturned =>
          \A root \in Roots : \A r \in FilesOf(root) \cap InOneTree :
              /\ PathStr(r) \in DOMAIN results
              /\ results[PathStr(r)] = "UNIQ: Only in " \o root
    /\ (DirReturned /\ run = 2) =>
          /\ prev.pc = "exit"
          /\ prev.args = <<args[2], args[1]>>
          /\ DOMAIN results = DOMAIN prev.results
          /\ \A root \in Roots : \A r \in FilesOf(root) \cap InOneTree :
                prev.results[PathStr(r)] = results[PathStr(r)]

C7_Witness ==
    /\ DirReturned
    /\ run = 2
    /\ FilesOf("A") \ FilesOf("B") # {}
    /\ FilesOf("B") \ FilesOf("A") # {}
    /\ DOMAIN results = DOMAIN prev.results

\* The "Error reading file" lines of a comparison of two files of equal size.
ExpectedDiagnostics ==
    IF Len(First.content) # Len(Second.content) THEN <<>>
    ELSE (IF Unhashable(First) THEN <<ReadErrorLine(cf.file1, First.fault)>> ELSE <<>>)
            \o (IF Unhashable(Second) THEN <<ReadErrorLine(cf.file2, Second.fault)>> ELSE <<>>)

(* C8, as the specification has it: comparing two files prints exactly one *)
(* line, "DIFF: " before the message when the files are the same and       *)
(* "SAME: " when they are not.                                             *)
C8_ExactlyOneLine ==
    (FileRun /\ pc = "exit")
        => out = <<(IF ret[1] THEN "DIFF: " ELSE "SAME: ") \o ret[2]>>

(* C8, amended: when compare_files returns, the last line printed is the   *)
(* one verdict line, "DIFF: " before the message when the files are the    *)
(* same and "SAME: " when they are not; before it comes one "Error reading *)
(* file" line for each digest that could not be computed, so the output is *)
(* one line only when no digest failed.  When a size lookup raises,        *)
(* nothing is printed.                                                     *)
C8_VerdictLineLast ==
    /\ (FileRun /\ pc = "exit")
          => out = ExpectedDiagnostics
                      \o <<(IF ret[1] THEN "DIFF: " ELSE "SAME: ") \o ret[2]>>
    /\ (FileRun /\ pc = "crashed") => out = <<>>

C8_Witness ==
    /\ FileRun
    /\ pc = "exit"
    /\ Len(out) = 2
    /\ out[2] = "SAME: Error calculating MD5 hash."

(* C9: at most one file is open at any moment, and a file is open only     *)
(* while md5_hash reads it: the handle is gone when md5_hash has returned, *)
(* by the end of the file or by an error of open() or of a read.           *)
C9_OneHandle ==
    /\ Cardinality(handles) <= 1
    /\ handles \subseteq {h.path}
    /\ pc # "md5_read" => handles = {}

C9_Witness ==
    /\ pc = "md5_read"
    /\ h.slot = 2
    /\ First.fault = "read"
    /\ Len(out) = 1
    /\ handles = {cf.file2}

(* C10: the files only in the first tree, the files only in the second and *)
(* the files in both are pairwise disjoint and together are all the files  *)
(* of the two trees; every key of the report is assigned once and belongs  *)
(* to one of the three.                                                    *)
C10_Partition ==
    (DirRun /\ pc \notin {"start", "cd_scan"}) =>
        LET onlyA == {f \in unique_files : f \in files1}
            onlyB == {f \in unique_files : f \notin files1}
            both  == common_files
        IN /\ onlyA = FilesOf(args[1][1]) \ FilesOf(args[2][1])
           /\ onlyB = FilesOf(args[2][1]) \ FilesOf(args[1][1])
           /\ onlyA \cap onlyB = {} /\ onlyA \cap both = {} /\ onlyB \cap both = {}
           /\ onlyA \cup onlyB \cup both = FilesOf("A") \cup FilesOf("B")
           /\ \A k \in DOMAIN results :
                 /\ Writes(written, k) = 1
                 /\ Cardinality({c \in {onlyA, onlyB, both} :
                                    \E f \in c : PathStr(f) = k}) = 1

C10_Witness ==
    /\ DirReturned
    /\ {f \in unique_files : f \in files1} # {}
    /\ common_files # {}
    /\ \E f \in common_files : Writes(written, PathStr(f)) = 1

====
